---- MODULE Spec2Model ----
(***************************************************************************)
(* Model of the MT5 HTTP bridge (src/main.py).                             *)
(*                                                                         *)
(* The bridge keeps one piece of state, LAST_ACC, and the import-time flag *)
(* MT5_AVAILABLE.  Every route is an `async def` with no `await` in its    *)
(* body, so a handler runs from its first line to its return without       *)
(* yielding: each handler is one action, taken when the server is idle.    *)
(* Sending the response makes the server idle again.  The terminal (the    *)
(* MetaTrader5 module) is a black box: every call into it returns any      *)
(* value its interface allows.  A handler's run is the sequence of         *)
(* terminal calls it made (with arguments and returned values) and the     *)
(* response it gave; an exception leaving the handler is the response      *)
(* Fault(...).                                                             *)
(***************************************************************************)
EXTENDS Integers, Sequences, FiniteSets, TLC

VARIABLES
    MT5_AVAILABLE,  \* main.py:8-12, fixed at import
    LAST_ACC,       \* main.py:27, the stored credential triple or None
    last_connect,   \* history: the body of the latest /connect request, or None
    acc_before,     \* history: LAST_ACC as the request just handled found it
    endpoint,       \* the route of the request just handled, "idle" between requests
    request,        \* the body of the request just handled
    calls,          \* the terminal calls that request made, in order
    response,       \* the response computed for it
    tasks,          \* the requests in flight when several are, one handler task each
    running,        \* the task the event loop is running, 0 when it runs none
    last_call       \* history: the latest terminal call made by a task in flight

vars ==
    <<MT5_AVAILABLE, LAST_ACC, last_connect, acc_before, endpoint, request, calls, response,
      tasks, running, last_call>>

\* The variables of the requests in flight, and those of the request handled alone.
in_flight == <<tasks, running, last_call>>
alone == <<last_connect, acc_before, endpoint, request, calls, response>>

-----------------------------------------------------------------------------
(* Bounds of the model *)

MaxLogin == 2           \* logins 1..MaxLogin
MaxFillingMode == 3     \* symbol filling_mode bitsets 0..MaxFillingMode
MaxInFlight == 2        \* requests in flight at once
MaxRecords == 2         \* rows returned by positions_get() / history_deals_get()

-----------------------------------------------------------------------------
(* Python's None, and the values of the MetaTrader5 constants *)

None == [null |-> TRUE]

NoArgs == [noargs |-> TRUE]

\* The values are those of the MetaTrader5 package; main.py:153-154 gives the
\* two SYMBOL_FILLING_* values as its defaults.
ORDER_TYPE_BUY == 0              \* main.py:121
ORDER_TYPE_SELL == 1             \* main.py:121
SYMBOL_FILLING_FOK == 1          \* main.py:153
SYMBOL_FILLING_IOC == 2          \* main.py:154
ORDER_FILLING_FOK == 0           \* main.py:158
ORDER_FILLING_IOC == 1           \* main.py:160
ORDER_FILLING_RETURN == 2        \* main.py:163
TRADE_ACTION_DEAL == 1           \* main.py:166
ORDER_TIME_GTC == 0              \* main.py:175
TRADE_RETCODE_DONE == 10009      \* main.py:184
MAGIC == 123456                  \* main.py:173

-----------------------------------------------------------------------------
(* Request bodies *)

\* ConnectRequest, main.py:76-79: login 1 with its password and server, and the
\* other logins with another password and server, so that the triple of login 1
\* differs from every other triple in every field.
ConnectRequest ==
    { [login |-> 1, password |-> "pw1", server |-> "Demo"] } \cup
    { [login |-> i, password |-> "pw2", server |-> "Live"] : i \in 2..MaxLogin }

Symbols == {"EURUSD", "XAUUSD"}
Types == {"BUY", "SELL", "buy"}

\* sl, tp: 0 stands for an absent or zero value (both falsy at main.py:171-172);
\* comment "" stands for an absent or empty comment (falsy at main.py:174).
OrderRequest ==
    [symbol : Symbols, type : Types, volume : {1}, sl : {0}, tp : {0}, comment : {""}]

Tickets == {555, 556}

CloseRequest == [ticket : Tickets]

-----------------------------------------------------------------------------
(* What the terminal may return to each call *)

TerminalInfoResults == {None, [connected |-> FALSE], [connected |-> TRUE]}

InitializeResults == BOOLEAN

LastErrors == { [code |-> -1, text |-> "Terminal: Call failed"],
                [code |-> -6, text |-> "Terminal: Authorization failed"] }

AccountInfoResults ==
    {None, [login |-> 1, balance |-> 1000, equity |-> 990, currency |-> "USD"]}

SymbolInfoResults ==
    {None} \cup [visible : BOOLEAN, filling_mode : 0..MaxFillingMode]

SymbolSelectResults == BOOLEAN

TickResults == {None, [bid |-> 10, ask |-> 12], [bid |-> 20, ask |-> 21]}

OrderSendResults ==
    { None,
      [retcode |-> TRADE_RETCODE_DONE, comment |-> "Request executed", order |-> 77],
      [retcode |-> 10004, comment |-> "Requote", order |-> 0] }

\* One open position as positions_get returns it; type is POSITION_TYPE_BUY (0)
\* or POSITION_TYPE_SELL (1).
PositionRow(t, side) ==
    [ticket |-> t, symbol |-> "EURUSD", volume |-> 1, type |-> side,
     profit |-> 5, price_open |-> 11]

\* positions_get(ticket=t): None, no row, or the one position with that ticket.
PositionsGetByTicketResults(t) ==
    {None, [rows |-> <<>>]} \cup { [rows |-> <<PositionRow(t, side)>>] : side \in {0, 1} }

\* One deal as history_deals_get returns it; type 0 is a buy, 1 a sell, 2 a
\* balance operation.
DealRow(side) ==
    [ticket |-> 900, symbol |-> "EURUSD", volume |-> 1, type |-> side,
     profit |-> 5, price |-> 11, time |-> 1700]

SeqsUpTo(S, n) == UNION { [1..k -> S] : k \in 0..n }

PositionsGetResults ==
    {None} \cup { [rows |-> r] :
                    r \in SeqsUpTo({ PositionRow(555, side) : side \in {0, 1} }, MaxRecords) }

HistoryDealsGetResults ==
    {None} \cup { [rows |-> r] :
                    r \in SeqsUpTo({ DealRow(side) : side \in {0, 1, 2} }, MaxRecords) }

Call(fn, args, ret) == [fn |-> fn, args |-> args, ret |-> ret]

\* A run of a handler, or of a part of one: the terminal calls made and the
\* value produced.
Run(cs, v) == [calls |-> cs, value |-> v]

\* An exception that leaves the handler (the HTTP layer answers 500).
Fault(exc) == [fault |-> exc]

-----------------------------------------------------------------------------
(* ensure_mt5, main.py:29-47 *)

\* main.py:35: the terminal counts as usable when terminal_info() is not None.
TerminalUsable(info) == info # None

\* main.py:39-47: the arguments of the initialize call of ensure_mt5.
EnsureInitializeArgs(acc) ==
    IF acc # None
    THEN [login |-> acc.login, password |-> acc.password, server |-> acc.server]
    ELSE NoArgs

\* The runs ensure_mt5 can take; value is the boolean it returns.
ensure_mt5 ==
    IF ~MT5_AVAILABLE
    THEN { Run(<<>>, FALSE) }
    ELSE UNION {
           IF TerminalUsable(info)
           THEN { Run(<<Call("terminal_info", NoArgs, info)>>, TRUE) }
           ELSE { Run(<<Call("terminal_info", NoArgs, info),
                        Call("initialize", EnsureInitializeArgs(LAST_ACC), ok)>>, ok)
                  : ok \in InitializeResults }
           : info \in TerminalInfoResults }

-----------------------------------------------------------------------------
(* /ping, /, /autoconnect, /connect, /account *)

ping_runs == { Run(<<>>, [status |-> "ok"]) }

root_runs == { Run(<<>>, [message |-> "API Working"]) }

\* main.py:64-74
autoconnect_runs ==
    IF ~MT5_AVAILABLE
    THEN { Run(<<>>, [success |-> FALSE,
                      error |-> [fmt |-> "MT5 Library not available on this platform (Linux/Cloud)."]]) }
    ELSE UNION {
           IF ~ok
           THEN { Run(<<Call("initialize", NoArgs, ok)>>,
                      [success |-> FALSE, error |-> [fmt |-> "MT5 Not initialized"]]) }
           ELSE { Run(<<Call("initialize", NoArgs, ok), Call("account_info", NoArgs, acc)>>,
                      IF acc # None
                      THEN [success |-> TRUE, login |-> acc.login,
                            balance |-> acc.balance, currency |-> acc.currency]
                      ELSE [success |-> FALSE])
                  : acc \in AccountInfoResults }
           : ok \in InitializeResults }

\* main.py:88-92: the value /connect stores in LAST_ACC.
StoredCredentials(req) ==
    [login |-> req.login, password |-> req.password, server |-> req.server]

\* main.py:94: the arguments of the initialize call of /connect.
ConnectInitializeArgs(req) ==
    [login |-> req.login, password |-> req.password, server |-> req.server]

\* main.py:95
ConnectFailure(req, err) ==
    [success |-> FALSE,
     error |-> [fmt |-> "Failed to connect to {req.server}: {mt5.last_error()}",
                server |-> req.server, last_error |-> err]]

\* connect_runs with the credentials stored only once the connection succeeded.
connect_runs_store_on_success(req) ==
    IF ~MT5_AVAILABLE
    THEN { Run(<<>>, <<LAST_ACC,
                       [success |-> FALSE, error |-> [fmt |-> "MT5 Library not available"]]>>) }
    ELSE UNION {
           IF ~ok
           THEN { Run(<<Call("initialize", ConnectInitializeArgs(req), ok),
                        Call("last_error", NoArgs, err)>>,
                      <<LAST_ACC, ConnectFailure(req, err)>>)
                  : err \in LastErrors }
           ELSE { Run(<<Call("initialize", ConnectInitializeArgs(req), ok)>>,
                      <<StoredCredentials(req), [success |-> TRUE]>>) }
           : ok \in InitializeResults }

\* connect_runs forgetting the session when the connection fails.
connect_runs_clear_on_failure(req) ==
    IF ~MT5_AVAILABLE
    THEN { Run(<<>>, <<LAST_ACC,
                       [success |-> FALSE, error |-> [fmt |-> "MT5 Library not available"]]>>) }
    ELSE UNION {
           IF ~ok
           THEN { Run(<<Call("initialize", ConnectInitializeArgs(req), ok),
                        Call("last_error", NoArgs, err)>>,
                      <<None, ConnectFailure(req, err)>>)
                  : err \in LastErrors }
           ELSE { Run(<<Call("initialize", ConnectInitializeArgs(req), ok)>>,
                      <<StoredCredentials(req), [success |-> TRUE]>>) }
           : ok \in InitializeResults }

\* main.py:81-97; value is <<the new LAST_ACC, the response>>.
connect_runs(req) ==
    IF ~MT5_AVAILABLE
    THEN { Run(<<>>, <<LAST_ACC,
                       [success |-> FALSE, error |-> [fmt |-> "MT5 Library not available"]]>>) }
    ELSE UNION {
           IF ~ok
           THEN { Run(<<Call("initialize", ConnectInitializeArgs(req), ok),
                        Call("last_error", NoArgs, err)>>,
                      <<StoredCredentials(req), ConnectFailure(req, err)>>)
                  : err \in LastErrors }
           ELSE { Run(<<Call("initialize", ConnectInitializeArgs(req), ok)>>,
                      <<StoredCredentials(req), [success |-> TRUE]>>) }
           : ok \in InitializeResults }

\* main.py:99-113
get_account_runs ==
    UNION {
      IF ~e.value
      THEN { Run(e.calls, [isConnected |-> FALSE]) }
      ELSE { Run(e.calls \o <<Call("account_info", NoArgs, acc)>>,
                 IF acc # None
                 THEN [login |-> acc.login, balance |-> acc.balance, equity |-> acc.equity,
                       currency |-> acc.currency, isConnected |-> TRUE]
                 ELSE [isConnected |-> FALSE])
             : acc \in AccountInfoResults }
      : e \in ensure_mt5 }

-----------------------------------------------------------------------------
(* /order, main.py:115-191 *)

\* Python's & on non-negative integers.
RECURSIVE BitAnd(_, _)
BitAnd(a, b) ==
    IF a = 0 \/ b = 0
    THEN 0
    ELSE (IF a % 2 = 1 /\ b % 2 = 1 THEN 1 ELSE 0) + 2 * BitAnd(a \div 2, b \div 2)

\* OrderType accepting the lower-case spelling as well.
OrderTypeIgnoringCase(type) ==
    IF type \in {"BUY", "buy"} THEN ORDER_TYPE_BUY ELSE ORDER_TYPE_SELL

\* main.py:121
OrderType(type) == IF type = "BUY" THEN ORDER_TYPE_BUY ELSE ORDER_TYPE_SELL

\* Suffixes with '.pro' and '.m' in the other order.
SuffixesReordered == <<"m", ".m", ".pro", ".x">>

\* main.py:129
Suffixes == <<"m", ".pro", ".m", ".x">>

\* main.py:130
AltSymbol(symbol, suffix) == symbol \o suffix

\* main.py:129-135: the loop over the suffixes from the i-th on, after the
\* calls cs; value is <<actual_symbol, symbol_info>>.
RECURSIVE ResolveFrom(_, _, _)
ResolveFrom(symbol, i, cs) ==
    IF i > Len(Suffixes)
    THEN { Run(cs, <<symbol, None>>) }
    ELSE LET alt_symbol == AltSymbol(symbol, Suffixes[i])
         IN  UNION {
               LET cs2 == Append(cs, Call("symbol_info", [symbol |-> alt_symbol], info))
               IN  IF info # None
                   THEN { Run(cs2, <<alt_symbol, info>>) }
                   ELSE ResolveFrom(symbol, i + 1, cs2)
               : info \in SymbolInfoResults }

\* Resolve without the test of the exact name's result: the suffixes are
\* tried even after an exact match, and a suffixed match replaces it.
ResolveTryingSuffixesAlways(symbol) ==
    UNION {
      LET cs == <<Call("symbol_info", [symbol |-> symbol], symbol_info)>>
      IN  { IF r.value[2] = None /\ symbol_info # None
            THEN Run(r.calls, <<symbol, symbol_info>>)
            ELSE r
            : r \in ResolveFrom(symbol, 1, cs) }
      : symbol_info \in SymbolInfoResults }

\* main.py:124-135
Resolve(symbol) ==
    UNION {
      LET cs == <<Call("symbol_info", [symbol |-> symbol], symbol_info)>>
      IN  IF symbol_info # None
          THEN { Run(cs, <<symbol, symbol_info>>) }
          ELSE ResolveFrom(symbol, 1, cs)
      : symbol_info \in SymbolInfoResults }

\* Price with bid and ask exchanged.
PriceExchanged(type, tick) == IF type = "BUY" THEN tick.bid ELSE tick.ask

\* main.py:149
Price(type, tick) == IF type = "BUY" THEN tick.ask ELSE tick.bid

\* FillingType with the IOC bit tested before the FOK bit.
FillingTypeIocFirst(filling_mode) ==
    IF BitAnd(filling_mode, SYMBOL_FILLING_IOC) # 0
    THEN ORDER_FILLING_IOC
    ELSE IF BitAnd(filling_mode, SYMBOL_FILLING_FOK) # 0
         THEN ORDER_FILLING_FOK
         ELSE ORDER_FILLING_RETURN

\* main.py:153-163
FillingType(filling_mode) ==
    IF BitAnd(filling_mode, SYMBOL_FILLING_FOK) # 0
    THEN ORDER_FILLING_FOK
    ELSE IF BitAnd(filling_mode, SYMBOL_FILLING_IOC) # 0
         THEN ORDER_FILLING_IOC
         ELSE ORDER_FILLING_RETURN

\* OrderSendRequest naming the requested symbol instead of the resolved one.
OrderSendRequestForRequestedSymbol(order, actual_symbol, symbol_info, tick) ==
    [action |-> TRADE_ACTION_DEAL,
     symbol |-> order.symbol,
     volume |-> order.volume,
     type |-> OrderType(order.type),
     price |-> Price(order.type, tick),
     sl |-> IF order.sl # 0 THEN order.sl ELSE 0,
     tp |-> IF order.tp # 0 THEN order.tp ELSE 0,
     magic |-> MAGIC,
     comment |-> IF order.comment # "" THEN order.comment ELSE "GainZAlgo Signal",
     type_time |-> ORDER_TIME_GTC,
     type_filling |-> FillingType(symbol_info.filling_mode)]

\* main.py:165-177
OrderSendRequest(order, actual_symbol, symbol_info, tick) ==
    [action |-> TRADE_ACTION_DEAL,
     symbol |-> actual_symbol,
     volume |-> order.volume,
     type |-> OrderType(order.type),
     price |-> Price(order.type, tick),
     sl |-> IF order.sl # 0 THEN order.sl ELSE 0,
     tp |-> IF order.tp # 0 THEN order.tp ELSE 0,
     magic |-> MAGIC,
     comment |-> IF order.comment # "" THEN order.comment ELSE "GainZAlgo Signal",
     type_time |-> ORDER_TIME_GTC,
     type_filling |-> FillingType(symbol_info.filling_mode)]

\* SubmitOrder without the test of result.retcode.
SubmitOrderIgnoringRetcode(cs, req) ==
    UNION {
      LET cs2 == Append(cs, Call("order_send", [request |-> req], result))
      IN  IF result = None
          THEN { Run(Append(cs2, Call("last_error", NoArgs, err)),
                     [success |-> FALSE,
                      error |-> [fmt |-> "Internal MT5 Error: order_send returned None. Error: {mt5.last_error()}",
                                 last_error |-> err]])
                 : err \in LastErrors }
          ELSE { Run(cs2, [success |-> TRUE, ticket |-> result.order]) }
      : result \in OrderSendResults }

\* main.py:179-191: the submission and the classification of its result.
SubmitOrder(cs, req) ==
    UNION {
      LET cs2 == Append(cs, Call("order_send", [request |-> req], result))
      IN  IF result = None
          THEN { Run(Append(cs2, Call("last_error", NoArgs, err)),
                     [success |-> FALSE,
                      error |-> [fmt |-> "Internal MT5 Error: order_send returned None. Error: {mt5.last_error()}",
                                 last_error |-> err]])
                 : err \in LastErrors }
          ELSE IF result.retcode # TRADE_RETCODE_DONE
               THEN { Run(cs2,
                          [success |-> FALSE,
                           error |-> [fmt |-> "Trade failed (Code {result.retcode}): {result.comment}",
                                      retcode |-> result.retcode, comment |-> result.comment],
                           retcode |-> result.retcode]) }
               ELSE { Run(cs2, [success |-> TRUE, ticket |-> result.order]) }
      : result \in OrderSendResults }

\* main.py:145-191
QuoteAndSubmit(cs, order, actual_symbol, symbol_info) ==
    UNION {
      LET cs2 == Append(cs, Call("symbol_info_tick", [symbol |-> actual_symbol], tick))
      IN  IF tick = None
          THEN { Run(cs2, [success |-> FALSE,
                           error |-> [fmt |-> "Could not get tick for {actual_symbol}",
                                      symbol |-> actual_symbol]]) }
          ELSE SubmitOrder(cs2, OrderSendRequest(order, actual_symbol, symbol_info, tick))
      : tick \in TickResults }

\* AfterResolve ignoring the result of symbol_select.
AfterResolveIgnoringSelect(cs, order, actual_symbol, symbol_info) ==
    IF symbol_info = None
    THEN { Run(cs, [success |-> FALSE,
                    error |-> [fmt |-> "Symbol {order.symbol} (or variants) not found in MT5",
                               symbol |-> order.symbol]]) }
    ELSE IF ~symbol_info.visible
         THEN UNION {
                QuoteAndSubmit(Append(cs, Call("symbol_select",
                                               [symbol |-> actual_symbol, enable |-> TRUE], ok)),
                               order, actual_symbol, symbol_info)
                : ok \in SymbolSelectResults }
         ELSE QuoteAndSubmit(cs, order, actual_symbol, symbol_info)

\* main.py:137-191
AfterResolve(cs, order, actual_symbol, symbol_info) ==
    IF symbol_info = None
    THEN { Run(cs, [success |-> FALSE,
                    error |-> [fmt |-> "Symbol {order.symbol} (or variants) not found in MT5",
                               symbol |-> order.symbol]]) }
    ELSE IF ~symbol_info.visible
         THEN UNION {
                LET cs2 == Append(cs, Call("symbol_select",
                                           [symbol |-> actual_symbol, enable |-> TRUE], ok))
                IN  IF ~ok
                    THEN { Run(cs2, [success |-> FALSE,
                                     error |-> [fmt |-> "Failed to select symbol {actual_symbol}",
                                                symbol |-> actual_symbol]]) }
                    ELSE QuoteAndSubmit(cs2, order, actual_symbol, symbol_info)
                : ok \in SymbolSelectResults }
         ELSE QuoteAndSubmit(cs, order, actual_symbol, symbol_info)

\* main.py:115-191
place_order_runs(order) ==
    UNION {
      IF ~e.value
      THEN { Run(e.calls, [success |-> FALSE,
                           error |-> [fmt |-> "Bridge not initialized and no credentials available."]]) }
      ELSE UNION { AfterResolve(e.calls \o r.calls, order, r.value[1], r.value[2])
                   : r \in Resolve(order.symbol) }
      : e \in ensure_mt5 }

-----------------------------------------------------------------------------
(* /close, main.py:196-226 *)

\* main.py:206
CloseOrderType(p) ==
    IF p.type = ORDER_TYPE_BUY THEN ORDER_TYPE_SELL ELSE ORDER_TYPE_BUY

\* main.py:208, for a tick that is not None
ClosePrice(order_type, tick) ==
    IF order_type = ORDER_TYPE_SELL THEN tick.bid ELSE tick.ask

\* main.py:210-221
CloseSendRequest(p, tick) ==
    [action |-> TRADE_ACTION_DEAL,
     symbol |-> p.symbol,
     volume |-> p.volume,
     type |-> CloseOrderType(p),
     position |-> p.ticket,
     price |-> ClosePrice(CloseOrderType(p), tick),
     magic |-> MAGIC,
     comment |-> "Close Position",
     type_time |-> ORDER_TIME_GTC,
     type_filling |-> ORDER_FILLING_IOC]

\* main.py:223-226: result.retcode on a None result raises AttributeError.
SubmitClose(cs, req) ==
    { LET cs2 == Append(cs, Call("order_send", [request |-> req], result))
      IN  IF result = None
          THEN Run(cs2, Fault("AttributeError: 'NoneType' object has no attribute 'retcode'"))
          ELSE IF result.retcode # TRADE_RETCODE_DONE
               THEN Run(cs2, [success |-> FALSE,
                              error |-> [fmt |-> "Close failed: {result.comment}",
                                         comment |-> result.comment]])
               ELSE Run(cs2, [success |-> TRUE])
      : result \in OrderSendResults }

\* main.py:205-226: tick.bid / tick.ask on a None tick raises AttributeError.
ClosePosition(cs, p) ==
    UNION {
      LET cs2 == Append(cs, Call("symbol_info_tick", [symbol |-> p.symbol], tick))
      IN  IF tick = None
          THEN { Run(cs2, Fault(IF CloseOrderType(p) = ORDER_TYPE_SELL
                                THEN "AttributeError: 'NoneType' object has no attribute 'bid'"
                                ELSE "AttributeError: 'NoneType' object has no attribute 'ask'")) }
          ELSE SubmitClose(cs2, CloseSendRequest(p, tick))
      : tick \in TickResults }

\* main.py:202: `not positions` holds for None and for the empty tuple.
NoPositions(positions) == positions = None \/ Len(positions.rows) = 0

\* AfterLookup testing `positions is None` only: positions[0] on the empty
\* tuple raises IndexError.
AfterLookupNoneOnly(cs, positions) ==
    IF positions = None
    THEN { Run(cs, [success |-> FALSE, error |-> [fmt |-> "Position not found"]]) }
    ELSE IF Len(positions.rows) = 0
         THEN { Run(cs, Fault("IndexError: tuple index out of range")) }
         ELSE ClosePosition(cs, positions.rows[1])

\* main.py:202-226
AfterLookup(cs, positions) ==
    IF NoPositions(positions)
    THEN { Run(cs, [success |-> FALSE, error |-> [fmt |-> "Position not found"]]) }
    ELSE ClosePosition(cs, positions.rows[1])

\* main.py:196-226
close_position_runs(req) ==
    UNION {
      IF ~e.value
      THEN { Run(e.calls, [success |-> FALSE, error |-> [fmt |-> "Bridge not initialized"]]) }
      ELSE UNION {
             AfterLookup(Append(e.calls,
                                Call("positions_get", [ticket |-> req.ticket], positions)),
                         positions)
             : positions \in PositionsGetByTicketResults(req.ticket) }
      : e \in ensure_mt5 }

-----------------------------------------------------------------------------
(* /positions and /history, main.py:228-267 *)

\* SideName testing for the sell code instead of the buy code.
SideNameBySellCode(type) == IF type = 1 THEN "SELL" ELSE "BUY"

\* main.py:242, main.py:262
SideName(type) == IF type = 0 THEN "BUY" ELSE "SELL"

\* main.py:238-245
ProjectPosition(p) ==
    [ticket |-> p.ticket, symbol |-> p.symbol, volume |-> p.volume,
     type |-> SideName(p.type), profit |-> p.profit, price_open |-> p.price_open]

\* main.py:258-266
ProjectDeal(d) ==
    [ticket |-> d.ticket, symbol |-> d.symbol, volume |-> d.volume,
     type |-> SideName(d.type), profit |-> d.profit, openPrice |-> d.price,
     closeTime |-> d.time * 1000]

\* main.py:228-246
get_positions_runs ==
    UNION {
      IF ~e.value
      THEN { Run(e.calls, <<>>) }
      ELSE { Run(Append(e.calls, Call("positions_get", NoArgs, positions)),
                 IF positions = None
                 THEN <<>>
                 ELSE [i \in 1..Len(positions.rows) |-> ProjectPosition(positions.rows[i])])
             : positions \in PositionsGetResults }
      : e \in ensure_mt5 }

\* main.py:248-267
get_history_runs ==
    UNION {
      IF ~e.value
      THEN { Run(e.calls, <<>>) }
      ELSE { Run(Append(e.calls, Call("history_deals_get", [group |-> "*"], deals)),
                 IF deals = None
                 THEN <<>>
                 ELSE [i \in 1..Len(deals.rows) |-> ProjectDeal(deals.rows[i])])
             : deals \in HistoryDealsGetResults }
      : e \in ensure_mt5 }

-----------------------------------------------------------------------------
(* The actions: one per route *)

ping ==
    /\ endpoint = "idle"
    /\ \E r \in ping_runs : calls' = r.calls /\ response' = r.value
    /\ endpoint' = "/ping"
    /\ request' = None
    /\ UNCHANGED <<MT5_AVAILABLE, LAST_ACC, last_connect, acc_before, in_flight>>

root ==
    /\ endpoint = "idle"
    /\ \E r \in root_runs : calls' = r.calls /\ response' = r.value
    /\ endpoint' = "/"
    /\ request' = None
    /\ UNCHANGED <<MT5_AVAILABLE, LAST_ACC, last_connect, acc_before, in_flight>>

autoconnect ==
    /\ endpoint = "idle"
    /\ \E r \in autoconnect_runs : calls' = r.calls /\ response' = r.value
    /\ endpoint' = "/autoconnect"
    /\ request' = None
    /\ UNCHANGED <<MT5_AVAILABLE, LAST_ACC, last_connect, acc_before, in_flight>>

connect ==
    \E req \in ConnectRequest :
      /\ endpoint = "idle"
      /\ \E r \in connect_runs(req) :
           /\ calls' = r.calls
           /\ LAST_ACC' = r.value[1]
           /\ response' = r.value[2]
      /\ endpoint' = "/connect"
      /\ request' = req
      /\ last_connect' = req
      /\ acc_before' = LAST_ACC
      /\ UNCHANGED <<MT5_AVAILABLE, in_flight>>

get_account ==
    /\ endpoint = "idle"
    /\ \E r \in get_account_runs : calls' = r.calls /\ response' = r.value
    /\ endpoint' = "/account"
    /\ request' = None
    /\ UNCHANGED <<MT5_AVAILABLE, LAST_ACC, last_connect, acc_before, in_flight>>

place_order ==
    \E order \in OrderRequest :
      /\ endpoint = "idle"
      /\ \E r \in place_order_runs(order) : calls' = r.calls /\ response' = r.value
      /\ endpoint' = "/order"
      /\ request' = order
      /\ UNCHANGED <<MT5_AVAILABLE, LAST_ACC, last_connect, acc_before, in_flight>>

close_position ==
    \E req \in CloseRequest :
      /\ endpoint = "idle"
      /\ \E r \in close_position_runs(req) : calls' = r.calls /\ response' = r.value
      /\ endpoint' = "/close"
      /\ request' = req
      /\ UNCHANGED <<MT5_AVAILABLE, LAST_ACC, last_connect, acc_before, in_flight>>

get_positions ==
    /\ endpoint = "idle"
    /\ \E r \in get_positions_runs : calls' = r.calls /\ response' = r.value
    /\ endpoint' = "/positions"
    /\ request' = None
    /\ UNCHANGED <<MT5_AVAILABLE, LAST_ACC, last_connect, acc_before, in_flight>>

get_history ==
    /\ endpoint = "idle"
    /\ \E r \in get_history_runs : calls' = r.calls /\ response' = r.value
    /\ endpoint' = "/history"
    /\ request' = None
    /\ UNCHANGED <<MT5_AVAILABLE, LAST_ACC, last_connect, acc_before, in_flight>>

\* The slots of the requests in flight, and the value of a free slot.
Slots == 1..MaxInFlight
Idle == [idle |-> TRUE]

\* The response leaves the handler and the server waits for the next request.
send_response ==
    /\ endpoint # "idle"
    /\ endpoint' = "idle"
    /\ request' = None
    /\ calls' = <<>>
    /\ response' = None
    /\ acc_before' = LAST_ACC
    /\ UNCHANGED <<MT5_AVAILABLE, LAST_ACC, last_connect, in_flight>>

Init ==
    /\ MT5_AVAILABLE \in BOOLEAN
    /\ LAST_ACC = None
    /\ last_connect = None
    /\ acc_before = None
    /\ endpoint = "idle"
    /\ request = None
    /\ calls = <<>>
    /\ response = None
    /\ tasks = [t \in Slots |-> Idle]
    /\ running = 0
    /\ last_call = None

Next ==
    \/ ping
    \/ root
    \/ autoconnect
    \/ connect
    \/ get_account
    \/ place_order
    \/ close_position
    \/ get_positions
    \/ get_history
    \/ send_response

Spec == Init /\ [][Next]_vars

-----------------------------------------------------------------------------
(* Several requests in flight: the handlers as tasks of the one event loop *)

\* The handlers declared with def, which the framework hands to a thread
\* pool: any step of a handler may be preempted by another handler.
RunsOnThreadPool == FALSE

\* main.py:60-271 and 279: every handler is a coroutine without an await,
\* run by the single event loop uvicorn.run starts, so that the loop runs a
\* handler it has started up to its return.
RunsToCompletion == TRUE

\* Yield with the loop taking control back after every step of a handler.
YieldAfterEveryStep(t) == 0

\* The task the loop runs after a step of task t.
Yield(t) == IF RunsToCompletion THEN t ELSE 0

\* The requests that can be in flight.
Requests ==
    [route : {"/connect"}, body : ConnectRequest]
        \cup [route : {"/account", "/order", "/close", "/positions", "/history"},
              body : {None}]

\* The names of the calls cs, in order.
Names(cs) == [i \in 1..Len(cs) |-> cs[i].fn]

\* main.py:124-191: the sequences of terminal calls /order can make once
\* ensure_mt5 has returned True.
OrderSteps ==
    { Names(r.calls) :
        r \in UNION { UNION { AfterResolve(rr.calls, order, rr.value[1], rr.value[2])
                              : rr \in Resolve(order.symbol) }
                      : order \in OrderRequest } }

\* main.py:201-226: those of /close.
CloseSteps ==
    { Names(r.calls) :
        r \in UNION { UNION { AfterLookup(<<Call("positions_get",
                                                 [ticket |-> req.ticket], positions)>>,
                                          positions)
                              : positions \in PositionsGetByTicketResults(req.ticket) }
                      : req \in CloseRequest } }

\* main.py:104, 124-191, 201-226, 233, 253
StepsAfterEnsure(route) ==
    CASE route = "/account" -> { <<"account_info">> }
      [] route = "/order" -> OrderSteps
      [] route = "/close" -> CloseSteps
      [] route = "/positions" -> { <<"positions_get">> }
      [] route = "/history" -> { <<"history_deals_get">> }

\* The task of a request: its position pc in the handler, the terminal calls
\* todo after ensure_mt5, the keyword arguments args read so far for the
\* initialize call of ensure_mt5, and whether it has called the terminal.
Task(rq) ==
    [route |-> rq.route, body |-> rq.body,
     pc |-> IF rq.route = "/connect" THEN "connect" ELSE "ensure_mt5",
     todo |-> <<>>, args |-> NoArgs, started |-> FALSE]

\* Task t at position pc, being run by the loop.
At(t, pc) == running = t /\ tasks[t] # Idle /\ tasks[t].pc = pc

\* The terminal call fn(args) made by task t.
TerminalCall(t, fn, args) ==
    [task |-> t, route |-> tasks[t].route, fn |-> fn, args |-> args]

\* A request arrives while others may be in flight.
receive ==
    \E t \in Slots, rq \in Requests :
      /\ tasks[t] = Idle
      /\ tasks' = [tasks EXCEPT ![t] = Task(rq)]
      /\ UNCHANGED <<MT5_AVAILABLE, LAST_ACC, running, last_call, alone>>

\* The event loop, running no task, starts or resumes one.
schedule ==
    \E t \in Slots :
      /\ running = 0
      /\ tasks[t] # Idle
      /\ running' = t
      /\ UNCHANGED <<MT5_AVAILABLE, LAST_ACC, tasks, last_call, alone>>

\* main.py:31-36
ensure_terminal_info ==
    \E t \in Slots :
      /\ At(t, "ensure_mt5")
      /\ IF ~MT5_AVAILABLE
         THEN /\ tasks' = [tasks EXCEPT ![t].pc = "return"]
              /\ UNCHANGED last_call
         ELSE /\ last_call' = TerminalCall(t, "terminal_info", NoArgs)
              /\ \E info \in TerminalInfoResults :
                   IF TerminalUsable(info)
                   THEN \E todo \in StepsAfterEnsure(tasks[t].route) :
                          tasks' = [tasks EXCEPT ![t].pc = "data", ![t].todo = todo,
                                                 ![t].started = TRUE]
                   ELSE tasks' = [tasks EXCEPT ![t].pc = "LAST_ACC", ![t].started = TRUE]
      /\ running' = Yield(t)
      /\ UNCHANGED <<MT5_AVAILABLE, LAST_ACC, alone>>

\* main.py:39
ensure_test_LAST_ACC ==
    \E t \in Slots :
      /\ At(t, "LAST_ACC")
      /\ tasks' = [tasks EXCEPT ![t].pc = IF LAST_ACC # None THEN "login" ELSE "initialize"]
      /\ running' = Yield(t)
      /\ UNCHANGED <<MT5_AVAILABLE, LAST_ACC, last_call, alone>>

\* main.py:41
ensure_read_login ==
    \E t \in Slots :
      /\ At(t, "login")
      /\ tasks' = [tasks EXCEPT ![t].pc = "password",
                                ![t].args = [login |-> LAST_ACC.login]]
      /\ running' = Yield(t)
      /\ UNCHANGED <<MT5_AVAILABLE, LAST_ACC, last_call, alone>>

\* main.py:42
ensure_read_password ==
    \E t \in Slots :
      /\ At(t, "password")
      /\ tasks' = [tasks EXCEPT ![t].pc = "server",
                                ![t].args = [login |-> tasks[t].args.login,
                                             password |-> LAST_ACC.password]]
      /\ running' = Yield(t)
      /\ UNCHANGED <<MT5_AVAILABLE, LAST_ACC, last_call, alone>>

\* main.py:43
ensure_read_server ==
    \E t \in Slots :
      /\ At(t, "server")
      /\ tasks' = [tasks EXCEPT ![t].pc = "initialize",
                                ![t].args = [login |-> tasks[t].args.login,
                                             password |-> tasks[t].args.password,
                                             server |-> LAST_ACC.server]]
      /\ running' = Yield(t)
      /\ UNCHANGED <<MT5_AVAILABLE, LAST_ACC, last_call, alone>>

\* main.py:40-47, and the test of ensure_mt5's result at the head of the handler
ensure_initialize ==
    \E t \in Slots :
      /\ At(t, "initialize")
      /\ last_call' = TerminalCall(t, "initialize", tasks[t].args)
      /\ \E ok \in InitializeResults :
           IF ok
           THEN \E todo \in StepsAfterEnsure(tasks[t].route) :
                  tasks' = [tasks EXCEPT ![t].pc = "data", ![t].todo = todo]
           ELSE tasks' = [tasks EXCEPT ![t].pc = "return"]
      /\ running' = Yield(t)
      /\ UNCHANGED <<MT5_AVAILABLE, LAST_ACC, alone>>

\* main.py:104, 124-191, 201-226, 233, 253: the next terminal call of the handler
data_call ==
    \E t \in Slots :
      /\ At(t, "data")
      /\ last_call' = TerminalCall(t, Head(tasks[t].todo), NoArgs)
      /\ tasks' = [tasks EXCEPT ![t].todo = Tail(tasks[t].todo),
                                ![t].pc = IF Len(tasks[t].todo) = 1 THEN "return" ELSE "data"]
      /\ running' = Yield(t)
      /\ UNCHANGED <<MT5_AVAILABLE, LAST_ACC, alone>>

\* main.py:83-92
connect_store ==
    \E t \in Slots :
      /\ At(t, "connect")
      /\ IF ~MT5_AVAILABLE
         THEN /\ tasks' = [tasks EXCEPT ![t].pc = "return"]
              /\ UNCHANGED LAST_ACC
         ELSE /\ tasks' = [tasks EXCEPT ![t].pc = "connect_initialize"]
              /\ LAST_ACC' = StoredCredentials(tasks[t].body)
      /\ running' = Yield(t)
      /\ UNCHANGED <<MT5_AVAILABLE, last_call, alone>>

\* main.py:94
connect_initialize ==
    \E t \in Slots :
      /\ At(t, "connect_initialize")
      /\ last_call' = TerminalCall(t, "initialize", ConnectInitializeArgs(tasks[t].body))
      /\ \E ok \in InitializeResults :
           tasks' = [tasks EXCEPT ![t].pc = IF ok THEN "return" ELSE "last_error",
                                  ![t].started = TRUE]
      /\ running' = Yield(t)
      /\ UNCHANGED <<MT5_AVAILABLE, LAST_ACC, alone>>

\* main.py:95
connect_last_error ==
    \E t \in Slots :
      /\ At(t, "last_error")
      /\ last_call' = TerminalCall(t, "last_error", NoArgs)
      /\ tasks' = [tasks EXCEPT ![t].pc = "return"]
      /\ running' = Yield(t)
      /\ UNCHANGED <<MT5_AVAILABLE, LAST_ACC, alone>>

\* The handler returns and the response leaves.
return_response ==
    \E t \in Slots :
      /\ At(t, "return")
      /\ tasks' = [tasks EXCEPT ![t] = Idle]
      /\ running' = 0
      /\ UNCHANGED <<MT5_AVAILABLE, LAST_ACC, last_call, alone>>

NextInFlight ==
    \/ receive
    \/ schedule
    \/ ensure_terminal_info
    \/ ensure_test_LAST_ACC
    \/ ensure_read_login
    \/ ensure_read_password
    \/ ensure_read_server
    \/ ensure_initialize
    \/ data_call
    \/ connect_store
    \/ connect_initialize
    \/ connect_last_error
    \/ return_response

SpecInFlight == Init /\ [][NextInFlight]_vars

-----------------------------------------------------------------------------
(* Vocabulary of the properties *)

\* The routes that start with ensure_mt5.
EnsureRoutes == {"/account", "/order", "/close", "/positions", "/history"}

\* The response each of them gives when ensure_mt5 returns False.
NotConnectedResponse(ep) ==
    CASE ep = "/account" -> [isConnected |-> FALSE]
      [] ep = "/order" ->
           [success |-> FALSE,
            error |-> [fmt |-> "Bridge not initialized and no credentials available."]]
      [] ep = "/close" -> [success |-> FALSE, error |-> [fmt |-> "Bridge not initialized"]]
      [] OTHER -> <<>>

\* The request just handled asked the terminal for its status.
CheckedTerminal ==
    /\ endpoint \in EnsureRoutes
    /\ Len(calls) >= 1
    /\ calls[1].fn = "terminal_info"

\* ... and the terminal reported an active, connected state.
ReportedConnected == calls[1].ret = [connected |-> TRUE]

\* The connectivity check of the request just handled made a connection attempt.
AttemptedConnection == Len(calls) >= 2 /\ calls[2].fn = "initialize"

\* The positions in calls of the calls of fn.
CallsOf(fn) == { i \in 1..Len(calls) : calls[i].fn = fn }

Triple(c) == [login |-> c.login, password |-> c.password, server |-> c.server]

-----------------------------------------------------------------------------
(* C1 *)

\* C1: after a /connect request carrying the triple c, a request that goes
\* through ensure_mt5 and finds the terminal not connected calls initialize
\* with exactly the login, password and server of c, and the result of that
\* attempt is the result of the connectivity check (False gives the route's
\* not-connected response with no further call, True lets the handler go on to
\* its data call); an attempt without credentials is made only when no triple
\* was ever stored.
C1_ReconnectsWithStoredTriple ==
    /\ (CheckedTerminal /\ ~ReportedConnected /\ last_connect # None) =>
         /\ AttemptedConnection
         /\ calls[2].args = Triple(last_connect)
         /\ (~calls[2].ret => Len(calls) = 2 /\ response = NotConnectedResponse(endpoint))
         /\ (calls[2].ret => Len(calls) >= 3)
    /\ (CheckedTerminal /\ AttemptedConnection /\ calls[2].args = NoArgs) =>
         last_connect = None

\* What holds of C1: when terminal_info() returns None the attempt is made and
\* carries the stored triple, or no argument when none was stored.
AttemptWhenStatusIsNone ==
    (CheckedTerminal /\ calls[1].ret = None) =>
        /\ AttemptedConnection
        /\ calls[2].args = (IF last_connect # None THEN Triple(last_connect) ELSE NoArgs)

-----------------------------------------------------------------------------
(* C2 *)

\* C2: /connect stores its triple, overwriting the previous one, before the
\* connection attempt, which carries the same triple; when the attempt fails
\* the session holds the new triple and the response is {success: false, error}
\* with the server name and the terminal's last-error diagnostic.
C2_ConnectStoresBeforeAttempt ==
    (endpoint = "/connect" /\ CallsOf("initialize") # {}) =>
        /\ LAST_ACC = Triple(request)
        /\ calls[1].fn = "initialize"
        /\ calls[1].args = Triple(request)
        /\ ~calls[1].ret =>
             /\ Len(calls) = 2
             /\ calls[2].fn = "last_error"
             /\ response =
                  [success |-> FALSE,
                   error |-> [fmt |-> "Failed to connect to {req.server}: {mt5.last_error()}",
                              server |-> request.server, last_error |-> calls[2].ret]]

\* A failed /connect that found another triple stored and replaced it.
C2_Witness ==
    /\ endpoint = "/connect"
    /\ CallsOf("initialize") # {}
    /\ ~calls[1].ret
    /\ acc_before # None
    /\ acc_before # Triple(request)
    /\ LAST_ACC = Triple(request)

-----------------------------------------------------------------------------
(* C3 *)

\* C3: ensure_mt5 attempts a connection exactly when the terminal does not
\* report an active, connected state: no initialize call when it does, an
\* initialize call in every other status, also for a status record that is
\* present and reports not-connected.
C3_AttemptIffNotConnected ==
    CheckedTerminal => (AttemptedConnection <=> ~ReportedConnected)

-----------------------------------------------------------------------------
(* C4 *)

\* The candidates of the resolver for the identifier s, in the order of the claim.
Candidates(s) == <<s, s \o "m", s \o ".pro", s \o ".m", s \o ".x">>

\* The calls the request just handled made after its connectivity check.
AfterEnsure ==
    SubSeq(calls, (IF AttemptedConnection THEN 3 ELSE 2), Len(calls))

\* The terminal had no metadata for any candidate it was asked about.
NoMetadata ==
    \A i \in CallsOf("symbol_info") : calls[i].ret = None

\* C4: when neither the requested identifier nor any of its four suffixed
\* variants has metadata, /order queries metadata for the identifier and then
\* for the four variants, in the fixed order, each once and nothing else,
\* answers with the not-found failure naming the requested identifier, and
\* makes no visibility, quote or submission call.
C4_NotFoundAfterAllVariants ==
    (endpoint = "/order" /\ CallsOf("symbol_info") # {} /\ NoMetadata) =>
        /\ AfterEnsure =
             [i \in 1..5 |->
                Call("symbol_info", [symbol |-> Candidates(request.symbol)[i]], None)]
        /\ response =
             [success |-> FALSE,
              error |-> [fmt |-> "Symbol {order.symbol} (or variants) not found in MT5",
                         symbol |-> request.symbol]]
        /\ CallsOf("symbol_select") = {}
        /\ CallsOf("symbol_info_tick") = {}
        /\ CallsOf("order_send") = {}

C4_Witness ==
    /\ endpoint = "/order"
    /\ request.symbol = "XAUUSD"
    /\ NoMetadata
    /\ Cardinality(CallsOf("symbol_info")) = 5
    /\ response.success = FALSE

-----------------------------------------------------------------------------
(* C5 *)

\* The quote fetched before the i-th call: the latest symbol_info_tick result.
QuoteBefore(i) ==
    calls[CHOOSE j \in CallsOf("symbol_info_tick") :
            j < i /\ \A k \in CallsOf("symbol_info_tick") : k < i => k <= j].ret

\* C5: every submitted request carries the ask of the fetched quote when its
\* side is BUY and the bid when its side is SELL, on /order and on /close; on
\* /close the submitted side is the opposite of the position's recorded side.
C5_PriceBySide ==
    \A i \in CallsOf("order_send") :
        LET req == calls[i].args.request IN
        /\ \E j \in CallsOf("symbol_info_tick") : j < i
        /\ req.type \in {ORDER_TYPE_BUY, ORDER_TYPE_SELL}
        /\ req.type = ORDER_TYPE_BUY => req.price = QuoteBefore(i).ask
        /\ req.type = ORDER_TYPE_SELL => req.price = QuoteBefore(i).bid
        /\ endpoint = "/close" =>
             \E j \in CallsOf("positions_get") :
                 LET p == calls[j].ret.rows[1] IN
                 /\ p.type = 0 => req.type = ORDER_TYPE_SELL
                 /\ p.type = 1 => req.type = ORDER_TYPE_BUY

\* A long position closed as a SELL at the bid.
C5_Witness ==
    /\ endpoint = "/close"
    /\ \E i \in CallsOf("order_send") :
         /\ calls[i].args.request.type = ORDER_TYPE_SELL
         /\ calls[i].args.request.price = 10
         /\ \E j \in CallsOf("positions_get") : calls[j].ret.rows[1].type = 0

-----------------------------------------------------------------------------
(* C6 *)

\* Whether bit number n (0 for the lowest) of the bitset is set.
BitSet(bitset, n) == (bitset \div (2 ^ n)) % 2 = 1

\* The metadata of the instrument /order resolved: the symbol_info result
\* that was not None.
ResolvedInfo ==
    calls[CHOOSE i \in CallsOf("symbol_info") : calls[i].ret # None].ret

\* C6: the fill mode of the submitted /order request is a function of the
\* resolved instrument's supported-mode bitset: Fill-or-Kill when the FOK bit
\* (bit 0) is set, also with the IOC bit set; Immediate-or-Cancel when the IOC
\* bit (bit 1) is set and the FOK bit is not; Return when neither is set.
C6_FillModeByBitset ==
    endpoint = "/order" =>
        \A i \in CallsOf("order_send") :
            LET mode == calls[i].args.request.type_filling
                bits == ResolvedInfo.filling_mode
            IN  /\ BitSet(bits, 0) => mode = ORDER_FILLING_FOK
                /\ (BitSet(bits, 1) /\ ~BitSet(bits, 0)) => mode = ORDER_FILLING_IOC
                /\ (~BitSet(bits, 1) /\ ~BitSet(bits, 0)) => mode = ORDER_FILLING_RETURN

\* An order on an instrument advertising both FOK and IOC, sent as FOK.
C6_Witness ==
    /\ endpoint = "/order"
    /\ \E i \in CallsOf("order_send") :
         /\ ResolvedInfo.filling_mode = 3
         /\ calls[i].args.request.type_filling = ORDER_FILLING_FOK

-----------------------------------------------------------------------------
(* C7 *)

\* C7: /order classifies the submission result into one of three outcomes.
\* No result: {success: false, error} with the internal-error text carrying
\* the terminal's last diagnostic.  A result whose status code is not the done
\* code: {success: false, error: "Trade failed (Code <code>): <comment>",
\* retcode: <code>} with that code and the terminal's comment.  A result with
\* the done code: {success: true, ticket} with the order identifier of the
\* result.  success: true is answered in the third case only.
C7_OrderResultClassified ==
    endpoint = "/order" =>
        /\ \A i \in CallsOf("order_send") :
             LET result == calls[i].ret IN
             /\ result = None =>
                  /\ i + 1 = Len(calls)
                  /\ calls[i + 1].fn = "last_error"
                  /\ response =
                       [success |-> FALSE,
                        error |-> [fmt |-> "Internal MT5 Error: order_send returned None. Error: {mt5.last_error()}",
                                   last_error |-> calls[i + 1].ret]]
             /\ (result # None /\ result.retcode # 10009) =>
                  response =
                    [success |-> FALSE,
                     error |-> [fmt |-> "Trade failed (Code {result.retcode}): {result.comment}",
                                retcode |-> result.retcode, comment |-> result.comment],
                     retcode |-> result.retcode]
             /\ (result # None /\ result.retcode = 10009) =>
                  response = [success |-> TRUE, ticket |-> result.order]
        /\ response.success =>
             \E i \in CallsOf("order_send") :
                 calls[i].ret # None /\ calls[i].ret.retcode = 10009

\* The requote example: a result with another status code and comment "Requote".
C7_Witness ==
    /\ endpoint = "/order"
    /\ \E i \in CallsOf("order_send") :
         calls[i].ret # None /\ calls[i].ret.comment = "Requote"
    /\ response.success = FALSE
    /\ response.retcode = 10004

-----------------------------------------------------------------------------
(* C8 *)

\* The position lookup of /close found nothing: None or the empty tuple.
LookupFoundNothing ==
    /\ endpoint = "/close"
    /\ \E i \in CallsOf("positions_get") :
         calls[i].ret = None \/ calls[i].ret = [rows |-> <<>>]

\* C8: for a ticket for which the terminal reports no open position, /close
\* answers {success: false, error: "Position not found"} and makes no quote
\* call and no submission call.
C8_CloseOfMissingPosition ==
    LookupFoundNothing =>
        /\ response = [success |-> FALSE, error |-> [fmt |-> "Position not found"]]
        /\ CallsOf("symbol_info_tick") = {}
        /\ CallsOf("order_send") = {}
        /\ calls[Len(calls)].fn = "positions_get"
        /\ calls[Len(calls)].args = [ticket |-> request.ticket]

\* /close {ticket: 555} with an empty lookup result.
C8_Witness ==
    /\ LookupFoundNothing
    /\ request.ticket = 555
    /\ calls[Len(calls)].ret = [rows |-> <<>>]

-----------------------------------------------------------------------------
(* C9 *)

\* The rows the terminal listed for the request just handled: none when the
\* listing call was not made or returned None.
ListedRows ==
    LET made == CallsOf("positions_get") \cup CallsOf("history_deals_get") IN
    IF made = {} THEN <<>>
    ELSE LET ret == calls[CHOOSE i \in made : TRUE].ret IN
         IF ret = None THEN <<>> ELSE ret.rows

\* C9: /positions and /history answer with a sequence: empty when the
\* connectivity check fails, when the terminal returns None and when it lists
\* no record; otherwise one projected record per terminal record, in the
\* terminal's order, side 0 as BUY and every other side as SELL.
C9_ListingsAreSequences ==
    endpoint \in {"/positions", "/history"} =>
        /\ DOMAIN response = 1..Len(ListedRows)
        /\ \A i \in 1..Len(ListedRows) :
             /\ response[i].ticket = ListedRows[i].ticket
             /\ response[i].symbol = ListedRows[i].symbol
             /\ response[i].volume = ListedRows[i].volume
             /\ response[i].profit = ListedRows[i].profit
             /\ ListedRows[i].type = 0 => response[i].type = "BUY"
             /\ ListedRows[i].type # 0 => response[i].type = "SELL"

\* A history of two deals, a balance operation (side 2) then a buy.
C9_Witness ==
    /\ endpoint = "/history"
    /\ Len(ListedRows) = 2
    /\ ListedRows[1].type = 2
    /\ ListedRows[2].type = 0
    /\ Len(response) = 2

-----------------------------------------------------------------------------
(* C10 *)

\* C10: whatever the terminal returns under its interface, every request ends
\* with a structured response and none with an unhandled fault; /order and
\* /close end with {success: true, ...} or {success: false, error, ...}.
C10_NoUnhandledFault ==
    /\ endpoint \in {"/ping", "/", "/autoconnect", "/connect", "/account", "/order", "/close"} =>
         "fault" \notin DOMAIN response
    /\ endpoint \in {"/order", "/close"} =>
         /\ "success" \in DOMAIN response
         /\ ~response.success => "error" \in DOMAIN response

\* What holds of C10: every route but /close ends with a structured response.
NoFaultOutsideClose ==
    endpoint \in {"/ping", "/", "/autoconnect", "/connect", "/account", "/order"} =>
        "fault" \notin DOMAIN response

-----------------------------------------------------------------------------
(* C11 *)

\* C11: /close classifies the submission result as /order does: {success: true}
\* exactly when the terminal returned a result with the done code; a result
\* with another status code gives {success: false, error} carrying the
\* terminal's comment; no result at all gives a failure response too.
C11_CloseResultClassified ==
    endpoint = "/close" =>
        /\ \A i \in CallsOf("order_send") :
             LET result == calls[i].ret IN
             /\ (result # None /\ result.retcode = 10009) => response = [success |-> TRUE]
             /\ (result # None /\ result.retcode # 10009) =>
                  response = [success |-> FALSE,
                              error |-> [fmt |-> "Close failed: {result.comment}",
                                         comment |-> result.comment]]
             /\ result = None =>
                  /\ "success" \in DOMAIN response
                  /\ ~response.success
        /\ ("success" \in DOMAIN response /\ response.success) =>
             \E i \in CallsOf("order_send") :
                 calls[i].ret # None /\ calls[i].ret.retcode = 10009

\* What holds of C11: the classification of a result that is not None.
CloseResultClassifiedWhenPresent ==
    endpoint = "/close" =>
        /\ \A i \in CallsOf("order_send") :
             LET result == calls[i].ret IN
             /\ (result # None /\ result.retcode = 10009) => response = [success |-> TRUE]
             /\ (result # None /\ result.retcode # 10009) =>
                  response = [success |-> FALSE,
                              error |-> [fmt |-> "Close failed: {result.comment}",
                                         comment |-> result.comment]]
        /\ ("success" \in DOMAIN response /\ response.success) =>
             \E i \in CallsOf("order_send") :
                 calls[i].ret # None /\ calls[i].ret.retcode = 10009

-----------------------------------------------------------------------------
(* C12 *)

\* The error a trading route gives for an ordinary connectivity failure, with
\* the library present.
ConnectivityFailureFmt(ep) ==
    CASE ep = "/autoconnect" -> "MT5 Not initialized"
      [] ep = "/connect" -> "Failed to connect to {req.server}: {mt5.last_error()}"
      [] ep = "/order" -> "Bridge not initialized and no credentials available."
      [] ep = "/close" -> "Bridge not initialized"

\* C12: with the trading library absent no route makes a terminal call; the
\* trading routes (/autoconnect, /connect, /order, /close) answer success:
\* false with a capability-unavailable error that differs from the error the
\* same route gives for an ordinary connectivity failure; /positions and
\* /history answer the empty sequence and /account {isConnected: false}.
C12_LibraryAbsent ==
    (~MT5_AVAILABLE /\ endpoint # "idle") =>
        /\ calls = <<>>
        /\ endpoint \in {"/autoconnect", "/connect", "/order", "/close"} =>
             /\ ~response.success
             /\ response.error.fmt # ConnectivityFailureFmt(endpoint)
        /\ endpoint \in {"/positions", "/history"} => Len(response) = 0
        /\ endpoint = "/account" => response = [isConnected |-> FALSE]

\* What holds of C12: no terminal call, success: false on the trading routes
\* with a distinguished error on /autoconnect and /connect, empty results on
\* the read routes.
LibraryAbsentDegrades ==
    (~MT5_AVAILABLE /\ endpoint # "idle") =>
        /\ calls = <<>>
        /\ endpoint \in {"/autoconnect", "/connect", "/order", "/close"} =>
             ~response.success
        /\ endpoint \in {"/autoconnect", "/connect"} =>
             response.error.fmt # ConnectivityFailureFmt(endpoint)
        /\ endpoint \in {"/positions", "/history"} => Len(response) = 0
        /\ endpoint = "/account" => response = [isConnected |-> FALSE]

-----------------------------------------------------------------------------
(* C15 *)

\* C15: the session is absent at startup and only /connect changes it: every
\* other route, with its connectivity check, leaves it as it was whatever the
\* outcome, and once a triple is stored the session is never absent again.
C15_SessionChangedOnlyByConnect ==
    /\ LAST_ACC = None
    /\ [][ /\ endpoint' # "/connect" => LAST_ACC' = LAST_ACC
           /\ LAST_ACC # None => LAST_ACC' # None ]_vars

\* A request other than /connect handled, with a failed reconnection, while a
\* triple is stored.
C15_Witness ==
    /\ endpoint \in EnsureRoutes
    /\ acc_before # None
    /\ LAST_ACC = acc_before
    /\ AttemptedConnection
    /\ ~calls[2].ret

-----------------------------------------------------------------------------
(* C16 *)

\* The request just handled met a failing step: a failed connectivity check,
\* no metadata under any name, a refused make-visible call, no quote, no
\* position, or a submission without a done result.
FailingStep ==
    \/ \E i \in CallsOf("initialize") : ~calls[i].ret
    \/ CallsOf("symbol_info") # {} /\ NoMetadata
    \/ \E i \in CallsOf("symbol_select") : ~calls[i].ret
    \/ \E i \in CallsOf("symbol_info_tick") : calls[i].ret = None
    \/ LookupFoundNothing
    \/ \E i \in CallsOf("order_send") :
         calls[i].ret = None \/ calls[i].ret.retcode # 10009

\* The position in calls of the first failing step.
FirstFailure ==
    CHOOSE i \in 1..Len(calls) :
        LET failed(j) ==
              \/ calls[j].fn = "initialize" /\ ~calls[j].ret
              \/ calls[j].fn = "symbol_info" /\ NoMetadata /\ j = Len(calls)
              \/ calls[j].fn = "symbol_select" /\ ~calls[j].ret
              \/ calls[j].fn = "symbol_info_tick" /\ calls[j].ret = None
              \/ calls[j].fn = "positions_get" /\ LookupFoundNothing
              \/ calls[j].fn = "order_send"
                   /\ (calls[j].ret = None \/ calls[j].ret.retcode # 10009)
        IN  failed(i) /\ \A j \in 1..(i - 1) : ~failed(j)

\* No call follows the first failing step but the read of the diagnostic.
NothingAfterFailure ==
    \A j \in (FirstFailure + 1)..Len(calls) : calls[j].fn = "last_error"

\* C16: no step is retried within a request: at most one submission call per
\* /order or /close request, at most one connection attempt per connectivity
\* check (a failed attempt with the stored triple is not followed by a default
\* attempt), and a failing step ends the request with a failure response and
\* no further terminal call.
C16_NoRetry ==
    endpoint \in {"/order", "/close", "/account", "/positions", "/history"} =>
        /\ Cardinality(CallsOf("order_send")) <= 1
        /\ Cardinality(CallsOf("initialize")) <= 1
        /\ FailingStep =>
             /\ NothingAfterFailure
             /\ endpoint \in {"/order", "/close"} =>
                  /\ "success" \in DOMAIN response
                  /\ ~response.success
             /\ endpoint = "/account" => response = [isConnected |-> FALSE]
             /\ endpoint \in {"/positions", "/history"} => Len(response) = 0

\* What holds of C16: no second submission, no second connection attempt, and
\* no call after a failing step.
NoSecondAttempt ==
    endpoint \in {"/order", "/close", "/account", "/positions", "/history"} =>
        /\ Cardinality(CallsOf("order_send")) <= 1
        /\ Cardinality(CallsOf("initialize")) <= 1
        /\ FailingStep => NothingAfterFailure

-----------------------------------------------------------------------------
(* C17 *)

\* The calls that ask the terminal for data or submit to it.
DataCalls ==
    { i \in 1..Len(calls) : calls[i].fn \notin {"terminal_info", "initialize", "last_error"} }

\* The number of calls the connectivity check of the request just handled
\* made when it returned True, 0 when it did not return True.
EnsureReturnedTrueAfter ==
    IF ~CheckedTerminal THEN 0
    ELSE IF AttemptedConnection
         THEN (IF calls[2].ret THEN 2 ELSE 0)
         ELSE (IF calls[1].ret # None THEN 1 ELSE 0)

\* The identifier /order resolved: the argument of the symbol_info call that
\* returned metadata.
ResolvedAt == CHOOSE i \in CallsOf("symbol_info") : calls[i].ret # None

ResolvedSymbol == calls[ResolvedAt].args.symbol

\* C17: on the routes that check connectivity no data call is made before the
\* check has returned true; /order submits only after connectivity succeeded,
\* the instrument was resolved (and made visible if it was not) and a quote was
\* obtained, in this order, and the quote call and the submitted request use
\* the resolved identifier.
C17_OrderOfCalls ==
    endpoint \in EnsureRoutes =>
        /\ DataCalls # {} =>
             /\ EnsureReturnedTrueAfter > 0
             /\ \A i \in DataCalls : i > EnsureReturnedTrueAfter
        /\ endpoint = "/order" =>
             /\ \A j \in CallsOf("symbol_info_tick") :
                  /\ \E k \in CallsOf("symbol_info") : calls[k].ret # None
                  /\ ResolvedAt < j
                  /\ calls[j].args.symbol = ResolvedSymbol
             /\ \A i \in CallsOf("order_send") :
                  /\ calls[i].args.request.symbol = ResolvedSymbol
                  /\ \E j \in CallsOf("symbol_info_tick") :
                       /\ j < i
                       /\ calls[j].ret # None
                       /\ ~calls[ResolvedAt].ret.visible =>
                            \E v \in CallsOf("symbol_select") :
                                /\ ResolvedAt < v
                                /\ v < j
                                /\ calls[v].ret
                                /\ calls[v].args.symbol = ResolvedSymbol

\* An order on a hidden instrument found under a suffixed name, submitted
\* after the reconnection, the make-visible call and the quote.
C17_Witness ==
    /\ endpoint = "/order"
    /\ AttemptedConnection
    /\ CallsOf("order_send") # {}
    /\ CallsOf("symbol_select") # {}
    /\ ResolvedSymbol = "EURUSD.pro"
    /\ request.symbol = "EURUSD"

-----------------------------------------------------------------------------
(* C18 *)

\* The metadata queries of the request just handled, in the order they were made.
MetadataQueries == SelectSeq(calls, LAMBDA c : c.fn = "symbol_info")

\* C18: symbol resolution returns the first match in the order requested,
\* requested+'m', requested+'.pro', requested+'.m', requested+'.x': the
\* queries follow that order from the requested identifier on, and the first
\* query that returns metadata is the last one made, so that no suffixed
\* variant is queried after an exact match and no variant after position k
\* when the first match is at position k.
C18_FirstMatchWins ==
    endpoint = "/order" =>
        LET q == MetadataQueries IN
        /\ Len(q) <= 5
        /\ \A i \in 1..Len(q) :
             /\ q[i].args.symbol = Candidates(request.symbol)[i]
             /\ q[i].ret # None => i = Len(q)
        /\ \A j \in CallsOf("symbol_info_tick") \cup CallsOf("symbol_select") :
             /\ Len(q) >= 1
             /\ q[Len(q)].ret # None
             /\ calls[j].args.symbol = q[Len(q)].args.symbol

\* The example of the specification: EURUSD absent, EURUSDm present with
\* Fill-or-Kill, a BUY submitted at the ask and answered with the ticket.
C18_Witness ==
    /\ endpoint = "/order"
    /\ request.symbol = "EURUSD"
    /\ request.type = "BUY"
    /\ Len(MetadataQueries) = 2
    /\ MetadataQueries[2].args.symbol = "EURUSDm"
    /\ MetadataQueries[2].ret # None
    /\ \E i \in CallsOf("order_send") :
         /\ calls[i].args.request.symbol = "EURUSDm"
         /\ calls[i].args.request.type_filling = ORDER_FILLING_FOK
         /\ calls[i].args.request.price = 12
    /\ response = [success |-> TRUE, ticket |-> 77]

-----------------------------------------------------------------------------
(* C19 *)

\* C19: /order makes the make-visible call exactly when the instrument was
\* found and is flagged not visible, once and on the resolved identifier; when
\* the call fails the response is a failure naming the resolved identifier and
\* no quote call and no submission call follows; for a visible instrument no
\* make-visible call is made.
C19_MakeVisible ==
    endpoint = "/order" =>
        LET found == \E k \in CallsOf("symbol_info") : calls[k].ret # None IN
        /\ CallsOf("symbol_select") # {} <=> (found /\ ~calls[ResolvedAt].ret.visible)
        /\ Cardinality(CallsOf("symbol_select")) <= 1
        /\ \A v \in CallsOf("symbol_select") :
             /\ v = ResolvedAt + 1
             /\ calls[v].args = [symbol |-> ResolvedSymbol, enable |-> TRUE]
             /\ ~calls[v].ret =>
                  /\ v = Len(calls)
                  /\ response =
                       [success |-> FALSE,
                        error |-> [fmt |-> "Failed to select symbol {actual_symbol}",
                                   symbol |-> ResolvedSymbol]]

\* A hidden instrument found under a suffixed name that could not be made
\* visible.
C19_Witness ==
    /\ endpoint = "/order"
    /\ request.symbol = "XAUUSD"
    /\ \E v \in CallsOf("symbol_select") :
         /\ ~calls[v].ret
         /\ calls[v].args.symbol = "XAUUSD.m"
    /\ response.error.symbol = "XAUUSD.m"

-----------------------------------------------------------------------------
(* C20 *)

\* C20: /order does not validate the side: the request is submitted as BUY
\* exactly when its type field is the string "BUY", every other value is
\* submitted as SELL at the bid, and no value of type makes /order refuse the
\* request: a refusal always comes from a failing step of the terminal or from
\* the absent library.
C20_SideNotValidated ==
    endpoint = "/order" =>
        /\ \A i \in CallsOf("order_send") :
             LET req == calls[i].args.request IN
             /\ req.type = ORDER_TYPE_BUY <=> request.type = "BUY"
             /\ request.type # "BUY" =>
                  /\ req.type = ORDER_TYPE_SELL
                  /\ req.price = QuoteBefore(i).bid
        /\ ~response.success => (FailingStep \/ ~MT5_AVAILABLE)
        /\ (MT5_AVAILABLE /\ ~FailingStep) => CallsOf("order_send") # {}

\* The type "buy" submitted as a SELL at the bid and filled.
C20_Witness ==
    /\ endpoint = "/order"
    /\ request.type = "buy"
    /\ \E i \in CallsOf("order_send") :
         /\ calls[i].args.request.type = ORDER_TYPE_SELL
         /\ calls[i].args.request.price = QuoteBefore(i).bid
    /\ response.success

-----------------------------------------------------------------------------
(* C13, C14: several requests in flight *)

\* Task u is between its first terminal call and its last one.
Mid(u) == tasks[u] # Idle /\ tasks[u].started /\ tasks[u].pc # "return"

\* The credential triples a /connect request can have stored.
CompleteTriples == { StoredCredentials(c) : c \in ConnectRequest }

\* C13: with several requests in flight the terminal calls are serialized per
\* request: whenever a request has just made a terminal call, no other request
\* is between its first terminal call and its last one.
C13_CallsSerializedPerRequest ==
    last_call # None =>
        \A u \in Slots \ {last_call.task} : ~Mid(u)

\* A request in the middle of /order, having just asked for the quote, while
\* a /connect request is in flight.
C13_Witness ==
    /\ last_call # None
    /\ last_call.fn = "symbol_info_tick"
    /\ Mid(last_call.task)
    /\ \E u \in Slots \ {last_call.task} :
         tasks[u] # Idle /\ tasks[u].route = "/connect"

\* C14: with /connect requests and connectivity checks in flight together,
\* every initialize call ensure_mt5 makes with credentials carries the login,
\* password and server of one single /connect request, and the session is
\* never partially written: it is absent or the complete triple of one request.
C14_ReconnectsWithOneTriple ==
    /\ LAST_ACC \in {None} \cup CompleteTriples
    /\ (last_call # None /\ last_call.fn = "initialize" /\ last_call.route # "/connect") =>
           last_call.args \in {NoArgs} \cup CompleteTriples

\* ensure_mt5 has just reconnected with the triple of one /connect request
\* while a /connect request with another triple is in flight.
C14_Witness ==
    /\ last_call # None
    /\ last_call.fn = "initialize"
    /\ last_call.route # "/connect"
    /\ last_call.args \in CompleteTriples
    /\ \E u \in Slots \ {last_call.task} :
         /\ tasks[u] # Idle
         /\ tasks[u].route = "/connect"
         /\ StoredCredentials(tasks[u].body) # last_call.args

====
